---------------------------- MODULE Spec2Model ----------------------------
(***************************************************************************)
(* Model of orbimage (src/src/lib.rs): the Image pixel buffer, its         *)
(* constructors, the clamped region of interest (ImageRoi) with its        *)
(* strided draw loop, the resize adapter and the extension dispatch of     *)
(* from_path.                                                              *)
(*                                                                         *)
(* Numbers.  The code computes with u32 (dimensions, offsets) and usize    *)
(* (lengths); TLC integers are 32-bit signed and cannot hold a u32.  A     *)
(* number is therefore modelled as its eight little-endian bytes (a        *)
(* 64-bit natural): a u32 is a number whose upper four bytes are zero,     *)
(* usize is taken to be 64 bits wide.  All arithmetic below is exact on    *)
(* these byte strings and wraps exactly where the machine arithmetic does. *)
(*                                                                         *)
(* Builds.  Rust's integer overflow is not undefined, but it is decided by *)
(* the build profile: with overflow checks (debug) + and * panic, and      *)
(* without them (release) they wrap.  Both builds are modelled; the        *)
(* variable overflow_checks is fixed at start-up.                          *)
(*                                                                         *)
(* Calls.  The library is synchronous: the caller makes one call at a      *)
(* time.  A call takes the state from "idle" to "returned" (its arguments  *)
(* and result are then in last) or, when it panics, to "dead"; the caller  *)
(* then draws the region it was given, keeps the resized Image, or goes on *)
(* (Continue).  ImageRoi::draw is a loop and takes one step per row.       *)
(*                                                                         *)
(* Memory.  vec![value; n] panics ("capacity overflow") for a buffer of    *)
(* more than isize::MAX bytes, in every build.  Whether the allocator can  *)
(* provide a buffer of 2^32 pixels (16 GiB) or more depends on the machine *)
(* the program runs on: both outcomes are modelled, the failure being the  *)
(* abort of the process.  The few pixels of a small buffer are always      *)
(* provided.                                                               *)
(***************************************************************************)
EXTENDS Integers, Sequences, FiniteSets, TLC

(***************************************************************************)
(* Bounds of the model.                                                    *)
(***************************************************************************)
\* the longest pixel array the model materialises as a sequence
MaxPixels == 4

(***************************************************************************)
(* 64-bit naturals as little-endian byte strings.                          *)
(***************************************************************************)
\* the number n (0 <= n < 2^31) as a byte string
Num(n) == << n % 256, (n \div 256) % 256, (n \div 65536) % 256,
             (n \div 16777216) % 256, 0, 0, 0, 0 >>

\* the integer a number below 2^31 stands for
ToInt(a) == a[1] + 256 * a[2] + 65536 * a[3] + 16777216 * a[4]

\* a number that fits a TLC integer (below 2^31)
IsSmall(a) == a[4] < 128 /\ a[5] = 0 /\ a[6] = 0 /\ a[7] = 0 /\ a[8] = 0

\* a number that fits a u32
FitsU32(a) == a[5] = 0 /\ a[6] = 0 /\ a[7] = 0 /\ a[8] = 0

\* truncation to 32 bits: what wrapping u32 arithmetic keeps
WrapU32(a) == << a[1], a[2], a[3], a[4], 0, 0, 0, 0 >>

RECURSIVE AddFrom(_, _, _, _)
AddFrom(a, b, i, carry) ==
    IF i > 8 THEN << >>
    ELSE LET s == a[i] + b[i] + carry
         IN  << s % 256 >> \o AddFrom(a, b, i + 1, s \div 256)

\* a + b (exact: the operands used are far below 2^63)
Add(a, b) == AddFrom(a, b, 1, 0)

RECURSIVE SubFrom(_, _, _, _)
SubFrom(a, b, i, borrow) ==
    IF i > 8 THEN << >>
    ELSE LET d == a[i] - b[i] - borrow
         IN  << (d + 256) % 256 >> \o SubFrom(a, b, i + 1, IF d < 0 THEN 1 ELSE 0)

\* a - b, for a >= b
Sub(a, b) == SubFrom(a, b, 1, 0)

RECURSIVE ColSum(_, _, _, _)
ColSum(a, b, k, i) ==
    IF i > k THEN 0 ELSE a[i] * b[k + 1 - i] + ColSum(a, b, k, i + 1)

RECURSIVE MulFrom(_, _, _, _)
MulFrom(a, b, k, carry) ==
    IF k > 8 THEN << >>
    ELSE LET s == ColSum(a, b, k, 1) + carry
         IN  << s % 256 >> \o MulFrom(a, b, k + 1, s \div 256)

\* a * b (exact for two u32 operands: the product is below 2^64)
Mul(a, b) == MulFrom(a, b, 1, 0)

RECURSIVE LtFrom(_, _, _)
LtFrom(a, b, i) ==
    IF i = 0 THEN FALSE
    ELSE IF a[i] # b[i] THEN a[i] < b[i]
    ELSE LtFrom(a, b, i - 1)

Lt(a, b) == LtFrom(a, b, 8)
Le(a, b) == ~Lt(b, a)

\* cmp::min and cmp::max
Min(a, b) == IF Lt(b, a) THEN b ELSE a
Max(a, b) == IF Lt(a, b) THEN b ELSE a

(***************************************************************************)
(* Results of an operation: a value, an error string, a panic, or the      *)
(* abort of the process (handle_alloc_error).                              *)
(***************************************************************************)
Ok(v)    == [status |-> "ok",    value |-> v,     err |-> ""]
Err(m)   == [status |-> "err",   value |-> << >>, err |-> m]
Panic(m) == [status |-> "panic", value |-> << >>, err |-> m]
Abort(m) == [status |-> "abort", value |-> << >>, err |-> m]

(***************************************************************************)
(* u32 arithmetic as the build compiles it: a + b and a * b on u32         *)
(* panic on overflow in a build with overflow checks and wrap otherwise.   *)
(***************************************************************************)
AddU32(checks, a, b) ==
    LET s == Add(a, b)
    IN  IF FitsU32(s) THEN Ok(s)
        ELSE IF checks THEN Panic("attempt to add with overflow")
        ELSE Ok(WrapU32(s))

MulU32(checks, a, b) ==
    LET p == Mul(a, b)
    IN  IF FitsU32(p) THEN Ok(p)
        ELSE IF checks THEN Panic("attempt to multiply with overflow")
        ELSE Ok(WrapU32(p))

(***************************************************************************)
(* Colors (orbclient::Color, four 8-bit channels).                         *)
(***************************************************************************)
Color(r, g, b, a) == [r |-> r, g |-> g, b |-> b, a |-> a]

\* Color::rgb(0, 0, 0): opaque black
Black == Color(0, 0, 0, 255)

\* Color { data: 0 }
Transparent == Color(0, 0, 0, 0)

Red == Color(255, 0, 0, 255)

(***************************************************************************)
(* Image.                                                                  *)
(***************************************************************************)
Image(w, h, data) == [w |-> w, h |-> h, data |-> data]

ErrDimension == "not enough or too much data given compared to width and height"

\* the test of from_data on the length of the data (line 65):
\* (width * height) as usize != data.len()
dimension_check(checks, width, height, len) ==
    LET p == MulU32(checks, width, height)
    IN  IF p.status = "panic" THEN p
        ELSE IF p.value # len THEN Err(ErrDimension)
        ELSE Ok(len)

\* Image::from_data
from_data(checks, width, height, data) ==
    LET c == dimension_check(checks, width, height, Num(Len(data)))
    IN  IF c.status # "ok" THEN c
        ELSE Ok(Image(width, height, data))

\* Result::unwrap
unwrap(r) ==
    IF r.status = "err"
    THEN Panic("called Result::unwrap on an Err value")
    ELSE r

\* a buffer of n pixels of four bytes is more than isize::MAX = 2^63 - 1
\* bytes: n >= 2^61
CapacityOverflow(n) == n[8] >= 32

\* the allocation of vec![value; n], n = width as usize * height as usize
\* (lines 60 and 103); room: the allocator has the memory
vec(n, room) ==
    IF CapacityOverflow(n) THEN Panic("capacity overflow")
    ELSE IF ~room THEN Abort("memory allocation failed")
    ELSE Ok(n)

\* the pixels of vec![color; n] for a length the model materialises
Filled(n, color) == [i \in 1..n |-> color]

\* Image::from_color.  The vector has width as usize * height as usize
\* entries (the exact product) and is allocated first; from_data then tests
\* its length.  A vector of 2^32 entries or more is never kept: its length
\* differs from every u32, so the test fails (or the multiplication panics)
\* before its pixels are looked at.
from_color(checks, width, height, color, room) ==
    LET n == Mul(width, height)
        v == vec(n, room)
        c == dimension_check(checks, width, height, n)
    IN  IF v.status # "ok" THEN v
        ELSE IF c.status # "ok" THEN unwrap(c)
        ELSE Ok(Image(width, height, Filled(ToInt(n), color)))

\* Image::new
new(checks, width, height, room) == from_color(checks, width, height, Black, room)

\* Image::default
default(checks) == new(checks, Num(0), Num(0), TRUE)

\* Renderer::width, Renderer::height, Renderer::data
width(image)  == image.w
height(image) == image.h
data(image)   == image.data

(***************************************************************************)
(* ImageRoi: the region {x, y, w, h} of an image.                          *)
(***************************************************************************)
ImageRoi(x, y, w, h) == [x |-> x, y |-> y, w |-> w, h |-> h]

\* Image::roi.  x + w and y + h are u32 additions.
roi(checks, image, x, y, w, h) ==
    LET x1 == Min(x, width(image))
        y1 == Min(y, height(image))
        xw == AddU32(checks, x, w)
        yh == AddU32(checks, y, h)
    IN  IF xw.status = "panic" THEN xw
        ELSE IF yh.status = "panic" THEN yh
        ELSE LET x2 == Max(x1, Min(xw.value, width(image)))
                 y2 == Max(y1, Min(yh.value, height(image)))
             IN  Ok(ImageRoi(x1, y1, Sub(x2, x1), Sub(y2, y1)))

\* a * stride + b in u32, as in the two offsets of ImageRoi::draw
RowOffset(checks, a, stride, b) ==
    LET m == MulU32(checks, a, stride)
    IN  IF m.status = "panic" THEN m
        ELSE AddU32(checks, m.value, b)

\* ImageRoi::draw, line 35: (self.y * stride + self.x) as usize
first_offset(checks, image, r) == RowOffset(checks, r.y, image.w, r.x)

\* ImageRoi::draw, line 36:
\* cmp::min(((self.y + self.h) * stride + self.x) as usize, self.image.data.len())
last_offset(checks, image, r) ==
    LET yh == AddU32(checks, r.y, r.h)
    IN  IF yh.status = "panic" THEN yh
        ELSE LET e == RowOffset(checks, yh.value, image.w, r.x)
             IN  IF e.status = "panic" THEN e
                 ELSE Ok(Min(e.value, Num(Len(image.data))))

\* i32::MAX, the largest surface coordinate
MaxI32 == 2147483647

\* y += 1 on an i32
IncI32(checks, y) ==
    IF y < MaxI32 THEN Ok(y + 1)
    ELSE IF checks THEN Panic("attempt to add with overflow")
    ELSE Ok(0 - MaxI32 - 1)

\* &self.image.data[offset..], for offset <= data.len()
SliceFrom(s, offset) == SubSeq(s, offset + 1, Len(s))

\* one call renderer.image(x, y, w, h, data)
Blit(x, y, w, h, pixels) == [x |-> x, y |-> y, w |-> w, h |-> h, data |-> pixels]

\* Image::into_data: the pixels, the Image being consumed
into_data(image) == image.data

\* Image::draw: one call renderer.image(x, y, self.w, self.h, &self.data)
draw(image, x, y) == Blit(x, y, image.w, image.h, image.data)

(***************************************************************************)
(* Image::resize.  The resampling engine (the resize crate) is external:  *)
(* resizer.resize(&src, &mut dst) returns nothing, so all the caller sees  *)
(* of it is that it wrote the destination ("resampled"), that it returned  *)
(* without producing output ("gave_up"), or that it panicked.              *)
(***************************************************************************)
EngineOutcome == {"resampled", "gave_up", "panicked"}

ResizeType == {"Point", "Lanczos3"}

\* resize with the Image rebuilt from the dimensions of the source instead
\* of the requested ones
resize_with_source_dims(checks, image, w, h, resize_type, engine, out, room) ==
    LET n == Mul(w, h)
        v == vec(n, room)
        c == dimension_check(checks, image.w, image.h, n)
    IN  IF v.status # "ok" THEN v
        ELSE IF engine = "panicked" THEN Panic("resize engine panicked")
        ELSE IF c.status # "ok" THEN c
        ELSE Ok(Image(image.w, image.h, IF engine = "resampled" THEN out
                                        ELSE Filled(ToInt(n), Transparent)))

\* Image::resize: the destination of w as usize * h as usize pixels is
\* allocated (line 103), the engine runs (lines 113-116), from_data builds
\* the Image (line 118).  The destination holds out when the engine
\* resampled, the zero-initialised pixels otherwise.
resize(checks, image, w, h, resize_type, engine, out, room) ==
    LET n == Mul(w, h)
        v == vec(n, room)
        c == dimension_check(checks, w, h, n)
    IN  IF v.status # "ok" THEN v
        ELSE IF engine = "panicked" THEN Panic("resize engine panicked")
        ELSE IF c.status # "ok" THEN c
        ELSE Ok(Image(w, h, IF engine = "resampled" THEN out
                            ELSE Filled(ToInt(n), Transparent)))

(***************************************************************************)
(* Image::from_path.  A path is modelled by its file name, a sequence of   *)
(* characters; BadByte stands for a byte that is not valid Unicode.        *)
(***************************************************************************)
BadByte == "<0xFF>"

Uppers == << "A", "B", "C", "D", "E", "F", "G", "H", "I", "J", "K", "L", "M",
             "N", "O", "P", "Q", "R", "S", "T", "U", "V", "W", "X", "Y", "Z" >>
Lowers == << "a", "b", "c", "d", "e", "f", "g", "h", "i", "j", "k", "l", "m",
             "n", "o", "p", "q", "r", "s", "t", "u", "v", "w", "x", "y", "z" >>

\* char lower-casing, on the characters the model uses
LowerChar(c) ==
    IF \E i \in 1..Len(Uppers) : Uppers[i] = c
    THEN Lowers[CHOOSE i \in 1..Len(Uppers) : Uppers[i] = c]
    ELSE c

\* a comparison that keeps the case of the extension
to_lowercase_unchanged(s) == s

\* str::to_lowercase
to_lowercase(s) == [i \in 1..Len(s) |-> LowerChar(s[i])]

\* OsStr::to_str: None when a byte is not valid Unicode
to_str(s) ==
    IF \E i \in 1..Len(s) : s[i] = BadByte
    THEN [some |-> FALSE, value |-> << >>]
    ELSE [some |-> TRUE, value |-> s]

\* Path::extension of a file name: the part after the last dot; None when
\* there is no dot, or when the only dot is the first character
extension(name) ==
    LET dots == {i \in 1..Len(name) : name[i] = "."}
    IN  IF dots = {} THEN [some |-> FALSE, value |-> << >>]
        ELSE LET d == CHOOSE i \in dots : \A j \in dots : j <= i
             IN  IF d = 1 THEN [some |-> FALSE, value |-> << >>]
                 ELSE [some |-> TRUE, value |-> SubSeq(name, d + 1, Len(name))]

\* what a file holds: the bytes of an image in one format, or neither
FileContents == {"bmp bytes", "jpg bytes", "png bytes", "garbage"}

\* the image the decoders produce from well-formed bytes in the model
DecodedImage == Image(Num(2), Num(1), << Red, Black >>)

\* the external decoders, pure functions of the file's bytes
parse_bmp(bytes) ==
    IF bytes = "bmp bytes" THEN Ok(DecodedImage) ELSE Err("bmp decode error")
parse_jpg(bytes) ==
    IF bytes = "jpg bytes" THEN Ok(DecodedImage) ELSE Err("jpg decode error")
parse_png(bytes) ==
    IF bytes = "png bytes" THEN Ok(DecodedImage) ELSE Err("png decode error")

\* a file on disk: whether it opens, whether it reads, and its bytes
File(opens, reads, bytes) == [opens |-> opens, reads |-> reads, bytes |-> bytes]

\* the result of from_path together with the decoder it invoked
Loaded(decoder, res) == [decoder |-> decoder, res |-> res]

from_path(path, file) ==
    IF ~file.opens THEN Loaded("none", Err("failed to open image"))
    ELSE IF ~file.reads THEN Loaded("none", Err("failed to read image"))
    ELSE LET extension_os == extension(path)
         IN  IF ~extension_os.some THEN Loaded("none", Err("no image extension"))
             ELSE LET ext == to_str(extension_os.value)
                  IN  IF ~ext.some
                      THEN Loaded("none", Err("image extension not valid unicode"))
                      ELSE LET lower == to_lowercase(ext.value)
                           IN  IF lower = << "b", "m", "p" >>
                               THEN Loaded("bmp", parse_bmp(file.bytes))
                               ELSE IF lower = << "j", "p", "g" >>
                                       \/ lower = << "j", "p", "e", "g" >>
                               THEN Loaded("jpg", parse_jpg(file.bytes))
                               ELSE IF lower = << "p", "n", "g" >>
                               THEN Loaded("png", parse_png(file.bytes))
                               ELSE Loaded("none", Err("unknown image extension"))

(***************************************************************************)
(* Inputs of the model.                                                    *)
(***************************************************************************)
TwoPow16      == << 0, 0, 1, 0, 0, 0, 0, 0 >>
TwoPow31Plus1 == << 1, 0, 0, 128, 0, 0, 0, 0 >>
MaxU32        == << 255, 255, 255, 255, 0, 0, 0, 0 >>

\* widths and heights: the small ones and three large u32 values
Dims == {Num(n) : n \in 0..MaxPixels} \cup {TwoPow16, TwoPow31Plus1, MaxU32}

\* target sizes of resize
ResizeDims == {Num(0), Num(1), Num(2), TwoPow16, MaxU32}

\* coordinates and extents of a requested region
RoiXs == {Num(0), Num(1), Num(2), MaxU32}
RoiWs == {Num(0), Num(1), Num(2), MaxU32}
RoiYs == {Num(0), Num(1), MaxU32}
RoiHs == {Num(1), Num(2), MaxU32}

\* surface rows of a draw
DrawYs == {0, MaxI32}

\* surface positions of Image::draw
ImageDrawXs == {3}
ImageDrawYs == {4}

\* a pixel count the model can hold as a sequence, or one so large that no
\* u32 equals it (then the pixels are never looked at)
Allocatable(n) == ~FitsU32(n) \/ (IsSmall(n) /\ ToInt(n) <= MaxPixels)

\* whether the allocator has room for n pixels: always for the small
\* buffers, either way for one of 2^32 pixels or more (a request beyond
\* isize::MAX bytes never reaches the allocator)
Rooms(n) == IF FitsU32(n) \/ CapacityOverflow(n) THEN {TRUE} ELSE BOOLEAN

\* the pixel arrays handed to from_data: one pattern of each length
Pattern(n) == [i \in 1..n |-> IF i % 2 = 1 THEN Red ELSE Black]
PixelArrays == {Pattern(n) : n \in 0..MaxPixels}

\* what the resampling engine may write into n pixels
Resampled(n) == { [i \in 1..n |-> Red],
                  [i \in 1..n |-> IF i % 2 = 1 THEN Transparent ELSE Red] }

\* the paths given to from_path, by what their extension is
PngPaths == { << "a", ".", "p", "n", "g" >>, << "a", ".", "P", "N", "G" >>,
              << "a", ".", "P", "n", "g" >>, << "a", ".", "b", ".", "p", "n", "g" >> }
JpgPaths == { << "a", ".", "j", "p", "g" >>, << "a", ".", "J", "P", "G" >>,
              << "a", ".", "j", "p", "e", "g" >>, << "a", ".", "J", "p", "E", "g" >> }
BmpPaths == { << "a", ".", "b", "m", "p" >>, << "a", ".", "B", "M", "P" >> }
UnknownExtensionPaths == { << "a", ".", "g", "i", "f" >>, << "a", ".", "G", "I", "F" >>,
                           << "a", ".", "p", "n", "g", "x" >>, << "a", "." >> }
NoExtensionPaths == { << "a" >>, << "p", "n", "g" >>, << ".", "p", "n", "g" >> }
NonTextExtensionPaths == { << "a", ".", "p", BadByte, "g" >>, << "a", ".", BadByte >> }
Paths == PngPaths \cup JpgPaths \cup BmpPaths \cup UnknownExtensionPaths
         \cup NoExtensionPaths \cup NonTextExtensionPaths

\* the files: one that does not open, one that opens but does not read, and
\* readable ones of each content
Files == {File(FALSE, FALSE, "garbage"), File(TRUE, FALSE, "garbage")}
         \cup {File(TRUE, TRUE, b) : b \in FileContents}

(***************************************************************************)
(* State.                                                                  *)
(***************************************************************************)
VARIABLES
    overflow_checks,  \* the build: TRUE when u32/i32 overflow panics
    img,              \* the Image the caller holds
    held,             \* FALSE once into_data has consumed the Image
    region,           \* the ImageRoi borrowed from img, when one is live
    pc,               \* "idle": between calls; "returned": a call has just
                      \* returned and last holds it; "draw": inside
                      \* ImageRoi::draw; "dead": the process panicked
                      \* or aborted
    cur,              \* locals of ImageRoi::draw: offset, last_offset, x, y
    blits,            \* the calls renderer.image(...) of the current draw, in order
    last              \* the call that has just returned: name, arguments, result

vars == << overflow_checks, img, held, region, pc, cur, blits, last >>

\* what is left in img once the Image has been moved out
Moved == Image(Num(0), Num(0), << >>)

NoRegion == [live |-> FALSE, r |-> ImageRoi(Num(0), Num(0), Num(0), Num(0))]
NoLocals == [offset |-> Num(0), last_offset |-> Num(0), x |-> 0, y |-> 0]

Call(op, args, res) == [op |-> op, args |-> args, res |-> res]
NoCall == Call("none", << >>, Ok(<< >>))

After(res) == IF res.status \in {"panic", "abort"} THEN "dead" ELSE "returned"

Init ==
    /\ overflow_checks \in BOOLEAN
    /\ img = default(overflow_checks).value
    /\ held = TRUE
    /\ region = NoRegion
    /\ pc = "idle"
    /\ cur = NoLocals
    /\ blits = << >>
    /\ last = NoCall

\* a call that constructs an Image: on success the caller holds the new
\* Image in place of the old one, on an error it keeps what it had, on a
\* panic the process is gone
Construct(op, args, res) ==
    /\ pc = "idle"
    /\ last' = Call(op, args, res)
    /\ pc' = After(res)
    /\ img' = IF res.status = "ok" THEN res.value ELSE img
    /\ held' = (held \/ res.status = "ok")
    /\ UNCHANGED << overflow_checks, region, cur, blits >>

New ==
    /\ pc = "idle"
    /\ \E w \in Dims, h \in Dims :
        /\ Allocatable(Mul(w, h))
        /\ \E room \in Rooms(Mul(w, h)) :
               Construct("new", [width |-> w, height |-> h, room |-> room],
                         new(overflow_checks, w, h, room))

FromColor ==
    /\ pc = "idle"
    /\ \E w \in Dims, h \in Dims, c \in {Red} :
        /\ Allocatable(Mul(w, h))
        /\ \E room \in Rooms(Mul(w, h)) :
               Construct("from_color",
                         [width |-> w, height |-> h, color |-> c, room |-> room],
                         from_color(overflow_checks, w, h, c, room))

FromData ==
    /\ pc = "idle"
    /\ \E w \in Dims, h \in Dims, d \in PixelArrays :
        Construct("from_data", [width |-> w, height |-> h, data |-> d],
                  from_data(overflow_checks, w, h, d))

Default ==
    Construct("default", << >>, default(overflow_checks))

FromPath ==
    /\ pc = "idle"
    /\ \E path \in Paths, file \in Files :
        LET got == from_path(path, file)
        IN  Construct("from_path",
                      [path |-> path, file |-> file, decoder |-> got.decoder],
                      got.res)

\* self.resize(w, h, resize_type): the source is borrowed immutably and the
\* result is a new Image, held in last.res
Resize ==
    /\ pc = "idle"
    /\ held
    /\ \E w \in ResizeDims, h \in ResizeDims, t \in ResizeType, e \in EngineOutcome :
        /\ pc = "idle"
        /\ Allocatable(Mul(w, h))
        /\ \E out \in (IF e = "resampled" /\ FitsU32(Mul(w, h))
                       THEN Resampled(ToInt(Mul(w, h))) ELSE {<< >>}),
              room \in Rooms(Mul(w, h)) :
               LET res == resize(overflow_checks, img, w, h, t, e, out, room)
               IN  /\ last' = Call("resize",
                                   [source |-> img, width |-> w, height |-> h,
                                    resize_type |-> t, engine |-> e,
                                    room |-> room], res)
                   /\ pc' = After(res)
        /\ UNCHANGED << overflow_checks, img, held, region, cur, blits >>

\* the caller keeps the resized Image in place of the source
Rebind ==
    /\ pc = "returned"
    /\ last.op = "resize"
    /\ last.res.status = "ok"
    /\ img' = last.res.value
    /\ pc' = "idle"
    /\ last' = NoCall
    /\ UNCHANGED << overflow_checks, held, region, cur, blits >>

\* self.data_mut()[i] = c, on the first or the last pixel
DataMutWrite ==
    /\ pc = "idle"
    /\ held
    /\ \E i \in {1, Len(img.data)} \cap (1..Len(img.data)), c \in {Transparent} :
        /\ pc = "idle"
        /\ img.data[i] # c
        /\ img' = [img EXCEPT !.data[i] = c]
        /\ last' = Call("data_mut", [index |-> i, color |-> c], Ok(img'))
        /\ pc' = "returned"
        /\ UNCHANGED << overflow_checks, held, region, cur, blits >>

\* self.roi(x, y, w, h)
Roi ==
    /\ pc = "idle"
    /\ held
    /\ \E x \in RoiXs, y \in RoiYs, w \in RoiWs, h \in RoiHs :
        LET res == roi(overflow_checks, img, x, y, w, h)
        IN  /\ pc = "idle"
            /\ last' = Call("roi", [x |-> x, y |-> y, w |-> w, h |-> h], res)
            /\ pc' = After(res)
            /\ region' = IF res.status = "ok"
                         THEN [live |-> TRUE, r |-> res.value] ELSE region
            /\ UNCHANGED << overflow_checks, img, held, cur, blits >>

\* ImageRoi::draw on the region roi has just returned, lines 34-36: the two
\* offsets
DrawEnter ==
    /\ pc = "returned"
    /\ last.op = "roi"
    /\ region.live
    /\ \E x \in {0}, y \in DrawYs :
        LET first == first_offset(overflow_checks, img, region.r)
            end   == last_offset(overflow_checks, img, region.r)
            args  == [x |-> x, y |-> y, region |-> region.r]
        IN  /\ pc = "returned"
            /\ last.op = "roi"
            /\ region.live
            /\ IF first.status = "panic" \/ end.status = "panic"
               THEN /\ pc' = "dead"
                    /\ cur' = NoLocals
                    /\ last' = Call("draw", args,
                                    IF first.status = "panic" THEN first ELSE end)
               ELSE /\ pc' = "draw"
                    /\ cur' = [offset |-> first.value, last_offset |-> end.value,
                               x |-> x, y |-> y]
                    /\ last' = Call("draw", args, Ok(<< >>))
            /\ UNCHANGED << overflow_checks, img, held, region, blits >>

\* ImageRoi::draw, lines 37-42: one iteration of the loop
DrawRow ==
    /\ pc = "draw"
    /\ Lt(cur.offset, cur.last_offset)
    /\ LET next_offset == Add(cur.offset, img.w)
           y1 == IncI32(overflow_checks, cur.y)
       IN  /\ blits' = Append(blits, Blit(cur.x, cur.y, region.r.w, Num(1),
                                          SliceFrom(img.data, ToInt(cur.offset))))
           /\ IF y1.status = "panic"
              THEN /\ pc' = "dead"
                   /\ cur' = [cur EXCEPT !.offset = next_offset]
                   /\ last' = [last EXCEPT !.res = y1]
              ELSE /\ pc' = "draw"
                   /\ cur' = [cur EXCEPT !.offset = next_offset, !.y = y1.value]
                   /\ last' = last
    /\ UNCHANGED << overflow_checks, img, held, region >>

\* ImageRoi::draw, line 37: the loop ends and draw returns
DrawReturn ==
    /\ pc = "draw"
    /\ ~Lt(cur.offset, cur.last_offset)
    /\ pc' = "returned"
    /\ last' = [last EXCEPT !.res = Ok(blits)]
    /\ UNCHANGED << overflow_checks, img, held, region, cur, blits >>

\* self.draw(renderer, x, y) on the Image: a single blit of the whole Image
ImageDraw ==
    /\ pc = "idle"
    /\ held
    /\ \E x \in ImageDrawXs, y \in ImageDrawYs :
        /\ blits' = << draw(img, x, y) >>
        /\ last' = Call("image_draw", [x |-> x, y |-> y], Ok(blits'))
        /\ pc' = "returned"
        /\ UNCHANGED << overflow_checks, img, held, region, cur >>

\* self.into_data(): the caller gets the pixels and holds no Image any more
IntoData ==
    /\ pc = "idle"
    /\ held
    /\ last' = Call("into_data", [source |-> img], Ok(into_data(img)))
    /\ pc' = "returned"
    /\ img' = Moved
    /\ held' = FALSE
    /\ UNCHANGED << overflow_checks, region, cur, blits >>

\* the caller is done with what the call returned: the result and any
\* region borrowed from the Image are dropped
Continue ==
    /\ pc = "returned"
    /\ pc' = "idle"
    /\ last' = NoCall
    /\ region' = NoRegion
    /\ cur' = NoLocals
    /\ blits' = << >>
    /\ UNCHANGED << overflow_checks, img, held >>

Next ==
    \/ New
    \/ FromColor
    \/ FromData
    \/ Default
    \/ FromPath
    \/ Resize
    \/ Rebind
    \/ DataMutWrite
    \/ Roi
    \/ DrawEnter
    \/ DrawRow
    \/ DrawReturn
    \/ ImageDraw
    \/ IntoData
    \/ Continue

Spec == Init /\ [][Next]_vars

(***************************************************************************)
(* Vocabulary of the properties.                                           *)
(***************************************************************************)
\* the call op has just returned
Returned(op) == pc = "returned" /\ last.op = op

\* the call op has just returned or has just panicked
Completed(op) == pc \in {"returned", "dead"} /\ last.op = op

\* the error kinds of the specification, by the message the code returns
ErrorKind(msg) ==
    CASE msg = ErrDimension -> "DimensionMismatch"
      [] msg \in {"failed to open image", "failed to read image"} -> "IOError"
      [] msg \in {"no image extension", "unknown image extension"} -> "UnsupportedFormat"
      [] msg = "image extension not valid unicode" -> "InvalidPath"
      [] msg \in {"bmp decode error", "jpg decode error", "png decode error"} -> "DecodeError"
      [] OTHER -> "none"

\* data.len() == width * height, the product taken in the naturals
WellFormed(image) == Num(Len(image.data)) = Mul(image.w, image.h)

(***************************************************************************)
(* C1.  Every Image that exists has data.len() == width() * height(), the  *)
(* product being the mathematical one: the Image the caller holds, and the *)
(* Image a successful resize has just returned.                            *)
(***************************************************************************)
C1_DataLenIsProduct ==
    /\ held => WellFormed(img)
    /\ (Completed("resize") /\ last.res.status = "ok") => WellFormed(last.res.value)

(***************************************************************************)
(* C2.  from_data(width, height, data) succeeds if and only if data.len()  *)
(* equals width * height, and then returns the Image of exactly that       *)
(* width, height and data; otherwise it returns the dimension-mismatch     *)
(* error.                                                                  *)
(***************************************************************************)
C2_FromDataIff ==
    Completed("from_data") =>
        LET a == last.args
        IN  IF Num(Len(a.data)) = Mul(a.width, a.height)
            THEN /\ last.res.status = "ok"
                 /\ last.res.value = Image(a.width, a.height, a.data)
            ELSE /\ last.res.status = "err"
                 /\ ErrorKind(last.res.err) = "DimensionMismatch"

(***************************************************************************)
(* C3.  roi(x, y, w, h) always succeeds, never failing or aborting, and    *)
(* the region it yields lies in the image: rx + rw <= W and ry + rh <= H.  *)
(***************************************************************************)
C3_RoiSucceedsInBounds ==
    Completed("roi") =>
        /\ last.res.status = "ok"
        /\ Le(Add(last.res.value.x, last.res.value.w), img.w)
        /\ Le(Add(last.res.value.y, last.res.value.h), img.h)

\* the region in bounds whenever roi returns one (it does not when x + w or
\* y + h overflows in a build with overflow checks)
RoiInBoundsWhenReturned ==
    Returned("roi") =>
        /\ Le(Add(region.r.x, region.r.w), img.w)
        /\ Le(Add(region.r.y, region.r.h), img.h)

(***************************************************************************)
(* C4.  The region roi(x, y, w, h) yields is exactly the intersection of   *)
(* the requested rectangle with the image: x1 = min(x, W), y1 = min(y, H), *)
(* width = max(x1, min(x + w, W)) - x1, height = max(y1, min(y + h, H))    *)
(* - y1, the sums x + w and y + h being the mathematical ones.             *)
(***************************************************************************)
Intersection(image, x, y, w, h) ==
    LET x1 == Min(x, image.w)
        y1 == Min(y, image.h)
    IN  ImageRoi(x1, y1,
                 Sub(Max(x1, Min(Add(x, w), image.w)), x1),
                 Sub(Max(y1, Min(Add(y, h), image.h)), y1))

\* C4: the region roi returns is that intersection
C4_RoiIsIntersection ==
    Returned("roi") =>
        last.res.value = Intersection(img, last.args.x, last.args.y,
                                      last.args.w, last.args.h)

(***************************************************************************)
(* C5.  A successful resize(w, h, algorithm) returns a new Image of width  *)
(* w and height h whose data has exactly w * h pixels (none when w and h   *)
(* are 0), and leaves the source Image as it was.                          *)
(***************************************************************************)
C5_ResizeExact ==
    (Returned("resize") /\ last.res.status = "ok") =>
        /\ last.res.value.w = last.args.width
        /\ last.res.value.h = last.args.height
        /\ Num(Len(last.res.value.data)) = Mul(last.args.width, last.args.height)
        /\ (last.args.width = Num(0) /\ last.args.height = Num(0)
                => last.res.value.data = << >>)
        /\ img = last.args.source

\* a 1x2 or narrower source resampled to 2x2
C5_Witness ==
    /\ Returned("resize")
    /\ last.res.status = "ok"
    /\ last.args.engine = "resampled"
    /\ last.args.width = Num(2)
    /\ last.args.height = Num(2)
    /\ last.args.source.w = Num(1)
    /\ Len(last.args.source.data) = 2
    /\ Len(last.res.value.data) = 4

(***************************************************************************)
(* C6.  from_path selects the decoder by the extension, compared without   *)
(* regard to case: paths that differ only in the case of the extension     *)
(* select the same decoder, "jpg" and "jpeg" the JPEG decoder, "bmp" the   *)
(* BMP decoder, "png" the PNG decoder; an unrecognized extension and a     *)
(* missing one fail with UnsupportedFormat, a non-text one with            *)
(* InvalidPath, and in these failing cases no decoder is invoked.          *)
(***************************************************************************)
\* two characters that are the same letter
SameLetter(c, e) ==
    \/ c = e
    \/ \E i \in 1..Len(Uppers) : {c, e} = {Uppers[i], Lowers[i]}

\* q is p with the case of some letters of its extension changed
ExtensionCaseVariant(p, q) ==
    /\ Len(p) = Len(q)
    /\ \A i \in 1..Len(p) :
           \/ p[i] = q[i]
           \/ /\ SameLetter(p[i], q[i])
              /\ \E j \in 1..(i - 1) : p[j] = "."
              /\ \A j \in i..Len(p) : p[j] # "."

\* the dispatch the claim describes, for the path and outcome of a call
DispatchedByExtension(path, file, decoder, res) ==
    /\ path \in PngPaths => decoder = "png"
    /\ path \in JpgPaths => decoder = "jpg"
    /\ path \in BmpPaths => decoder = "bmp"
    /\ path \in UnknownExtensionPaths \cup NoExtensionPaths =>
           /\ res.status = "err"
           /\ ErrorKind(res.err) = "UnsupportedFormat"
           /\ decoder = "none"
    /\ path \in NonTextExtensionPaths =>
           /\ res.status = "err"
           /\ ErrorKind(res.err) = "InvalidPath"
           /\ decoder = "none"
    /\ \A q \in Paths :
           ExtensionCaseVariant(path, q) => from_path(q, file).decoder = decoder

\* C6 as stated: the dispatch by extension, for every path, whatever the file
C6_DispatchByExtension ==
    Completed("from_path") =>
        DispatchedByExtension(last.args.path, last.args.file,
                              last.args.decoder, last.res)

\* C6 as amended: the dispatch happens once the file has been opened
\* and read; a file that cannot be opened or read fails with IOError first,
\* whatever the extension, and no decoder is invoked
C6_DispatchOnceRead ==
    Completed("from_path") =>
        IF last.args.file.opens /\ last.args.file.reads
        THEN DispatchedByExtension(last.args.path, last.args.file,
                                   last.args.decoder, last.res)
        ELSE /\ last.res.status = "err"
             /\ ErrorKind(last.res.err) = "IOError"
             /\ last.args.decoder = "none"

\* "a.PNG" holding a PNG image has been loaded by the PNG decoder
C6_Witness ==
    /\ Returned("from_path")
    /\ last.args.path = << "a", ".", "P", "N", "G" >>
    /\ last.args.file = File(TRUE, TRUE, "png bytes")
    /\ last.args.decoder = "png"
    /\ last.res.status = "ok"

(***************************************************************************)
(* C7.  from_color(w, h, c) returns an Image of width w and height h whose *)
(* data has exactly w * h entries, every one equal to c; new(w, h) is      *)
(* from_color(w, h, opaque black); default() is the empty 0x0 Image.       *)
(***************************************************************************)
FilledImage(res, w, h, c) ==
    /\ res.status = "ok"
    /\ res.value.w = w
    /\ res.value.h = h
    /\ Num(Len(res.value.data)) = Mul(w, h)
    /\ \A i \in 1..Len(res.value.data) : res.value.data[i] = c

\* C7: from_color, new and default return the filled Image, for every w, h, c
C7_FromColorFills ==
    /\ Completed("from_color") =>
           FilledImage(last.res, last.args.width, last.args.height, last.args.color)
    /\ Completed("new") =>
           FilledImage(last.res, last.args.width, last.args.height, Black)
    /\ Completed("default") =>
           /\ last.res.status = "ok"
           /\ last.res.value = Image(Num(0), Num(0), << >>)

\* the same of every Image from_color or new does return
FilledWhenReturned ==
    /\ Returned("from_color") =>
           FilledImage(last.res, last.args.width, last.args.height, last.args.color)
    /\ Returned("new") =>
           FilledImage(last.res, last.args.width, last.args.height, Black)

(***************************************************************************)
(* C8.  Whenever the resampling engine cannot produce output, resize       *)
(* returns the ResizeFailure error as a normal error result: it neither    *)
(* returns an Image nor crashes.                                           *)
(***************************************************************************)
\* the destination was allocated, so the engine was run
EngineRan(call) ==
    vec(Mul(call.args.width, call.args.height), call.args.room).status = "ok"

C8_EngineFailureIsError ==
    (Completed("resize") /\ EngineRan(last) /\ last.args.engine # "resampled") =>
        /\ pc = "returned"
        /\ last.res.status = "err"
        /\ ErrorKind(last.res.err) = "ResizeFailure"

(***************************************************************************)
(* C9.  new(width, height) and from_color(width, height, color) never fail *)
(* and never terminate the process, for any u32 dimensions.                *)
(***************************************************************************)
C9_NewNeverPanics ==
    (last.op \in {"new", "from_color"}) => (pc # "dead" /\ last.res.status = "ok")

(***************************************************************************)
(* C10.  ImageRoi::draw(surface, x, y) terminates and issues one blit per  *)
(* scan line of the region, rh in all, in increasing row order: the k-th   *)
(* (k = 0..rh-1) at (x, y + k), of width rw and height 1, its first rw     *)
(* pixels being the source pixels (ry + k) * W + rx .. (ry + k) * W + rx   *)
(* + rw - 1, all inside the backing array.                                 *)
(***************************************************************************)
\* the position after source index (ry + k) * W + rx + j, as a number
SourcePosition(r, image, k, j) ==
    Add(Add(Mul(Add(r.y, Num(k)), image.w), r.x), Num(j + 1))

\* blit number k (from 0) of a draw of region r at (x, y)
RowBlit(b, r, image, x, y, k) ==
    /\ b.x = x
    /\ y <= MaxI32 - k
    /\ b.y = y + k
    /\ b.w = r.w
    /\ b.h = Num(1)
    /\ IsSmall(r.w)
    /\ \A j \in 0..(ToInt(r.w) - 1) :
           LET at == SourcePosition(r, image, k, j)
           IN  /\ IsSmall(at)
               /\ ToInt(at) <= Len(image.data)
               /\ j + 1 <= Len(b.data)
               /\ b.data[j + 1] = image.data[ToInt(at)]

\* C10: every draw returns, having issued rh blits, the k-th being row k
C10_DrawRows ==
    Completed("draw") =>
        /\ pc = "returned"
        /\ Num(Len(last.res.value)) = last.args.region.h
        /\ \A k \in 0..(Len(last.res.value) - 1) :
               RowBlit(last.res.value[k + 1], last.args.region, img,
                       last.args.x, last.args.y, k)

\* the same of the draws that return, of a region at least one pixel wide,
\* of an Image whose data length is its width times its height, when the
\* rows drawn stay below i32::MAX
DrawRowsOfWideRegion ==
    (/\ Returned("draw")
     /\ WellFormed(img)
     /\ last.args.region.w # Num(0)
     /\ last.args.y < MaxI32 - Len(last.res.value)) =>
        /\ Num(Len(last.res.value)) = last.args.region.h
        /\ \A k \in 0..(Len(last.res.value) - 1) :
               RowBlit(last.res.value[k + 1], last.args.region, img,
                       last.args.x, last.args.y, k)

=============================================================================
